---- MODULE Spec2Model ----
(***************************************************************************)
(* vita-pack-vpk: the manifest builder (build_list and its helpers) and    *)
(* the archive packager (pack_vpk), modelled from                          *)
(* src/bin/vita-pack-vpk/src/main.rs.                                      *)
(*                                                                         *)
(* Text (paths, declarations, archive names, file bytes) is a sequence of  *)
(* one-character strings, so that split("="), len() and path components    *)
(* are computed as the code computes them.                                 *)
(***************************************************************************)
EXTENDS Integers, Sequences, FiniteSets, TLC

VARIABLES
    sfo,          \* value of --sfo
    eboot,        \* value of --eboot
    adds,         \* values of --add, in command-line order
    fs,           \* the filesystem: path -> kind of object found there
    vpk_writable, \* whether File::create succeeds on the vpk path
    pc,           \* position of the process
    manifest,     \* addlist_vec as returned by build_list
    vpk,          \* the output file: created, records written, finished
    file_buff,    \* pack_vpk's transient buffer
    idx,          \* pack_vpk's loop position (next manifest entry)
    opened,       \* indices of the manifest entries pack_vpk tried to open
    fail_at,      \* index of the entry at which pack_vpk failed, 0 if none
    pack_result,  \* "none", "Ok" or "Err": what pack_vpk returned
    err,          \* the message printed on failure, "none" if none
    exit_code     \* process exit status, -1 while running

vars == << sfo, eboot, adds, fs, vpk_writable, pc, manifest, vpk, file_buff,
           idx, opened, fail_at, pack_result, err, exit_code >>

----------------------------------------------------------------------------
(* Bounds *)

MaxAdds == 2      \* number of --add declarations on a command line
MaxArgLen == 4    \* length of a declaration in the declaration-syntax check

----------------------------------------------------------------------------
(* Program constants *)

DEFAULT_SFO_VPK_PATH ==
    << "s","c","e","_","s","y","s","/","p","a","r","a","m",".","s","f","o" >>
DEFAULT_EBOOT_VPK_PATH == << "e","b","o","o","t",".","b","i","n" >>

NOINPUT == 66        \* exitcode::NOINPUT
CANTCREAT == 73      \* exitcode::CANTCREAT
CLAP_ERROR == 2      \* status of clap's exit on a validator error
PANIC == 101         \* status of a Rust process that panicked

MSG_NOT_EXIST == "File doesn't exist!"
MSG_NOT_FILE == "Given path is not a valid file!"
MSG_NEED_SRC_DST == "Need <src=dst>."
MSG_NOINPUT == "[ERR] Given file or folder doesn't exists"
MSG_CANTCREAT == "error: Unable to make the file"
MSG_PACK == "Error: pack_vpk"
MSG_PANIC == "panicked"

----------------------------------------------------------------------------
(* Text helpers: str::contains, str::split, Path::components,              *)
(* Path::strip_prefix                                                      *)

Contains(s, c) == \E i \in 1..Len(s) : s[i] = c

FirstIndex(s, c) == CHOOSE i \in 1..Len(s) :
                        s[i] = c /\ \A j \in 1..(i-1) : s[j] # c

\* str::split(c): the pieces between the occurrences of c, empty ones kept
RECURSIVE Split(_, _)
Split(s, c) ==
    IF ~Contains(s, c) THEN << s >>
    ELSE LET i == FirstIndex(s, c)
         IN  << SubSeq(s, 1, i-1) >> \o Split(SubSeq(s, i+1, Len(s)), c)

\* Path::components of a relative path: the non-empty pieces between '/'
Components(p) == SelectSeq(Split(p, "/"), LAMBDA x : x # << >>)

IsPrefix(a, b) == Len(a) <= Len(b) /\ SubSeq(b, 1, Len(a)) = a

\* path.strip_prefix(base).is_ok()
strip_prefix_ok(path, base) == IsPrefix(Components(base), Components(path))

----------------------------------------------------------------------------
(* The filesystem *)

P_s == << "s" >>
P_e == << "e" >>
P_a == << "a" >>
P_d == << "d" >>
P_da == << "d", "/", "a" >>
T_ab == << "a", "=", "b" >>
T_dx == << "d", "=", "x" >>
T_dd == << "d", "=", "d" >>

Kinds == { "absent", "file", "dir", "other" }

exists(p) == p \in DOMAIN fs /\ fs[p] # "absent"
is_file(p) == p \in DOMAIN fs /\ fs[p] = "file"
is_dir(p) == p \in DOMAIN fs /\ fs[p] = "dir"

\* the bytes File::open + read_to_end deliver for a regular file: every file
\* holds distinct, non-empty bytes (the characters of its own path)
FileBytes(p) == p

\* WalkDir::new(root).into_iter().filter_map(|e| e.ok()): the root and
\* everything beneath it
WalkDir(root) ==
    IF ~exists(root) THEN { }
    ELSE { root } \cup
         { p \in DOMAIN fs : /\ exists(p)
                             /\ is_dir(root)
                             /\ Components(p) # Components(root)
                             /\ IsPrefix(Components(root), Components(p)) }

----------------------------------------------------------------------------
(* Results of the functions that can end the process instead of returning  *)

Returned(list) == [ kind |-> "ok", list |-> list, code |-> 0, err |-> "none" ]
Exited(code, msg) == [ kind |-> "exit", list |-> << >>, code |-> code, err |-> msg ]
Panicked == [ kind |-> "panic", list |-> << >>, code |-> PANIC, err |-> MSG_PANIC ]

AddList(src, dst) == [ src |-> src, dst |-> dst ]

----------------------------------------------------------------------------
(* Validators given to clap *)

\* check_file without its first test: a missing path is reported as not a file
check_file_no_exists(file) ==
    IF ~is_file(file) THEN MSG_NOT_FILE ELSE "Ok"

check_file(file) ==
    IF ~exists(file) THEN MSG_NOT_EXIST
    ELSE IF ~is_file(file) THEN MSG_NOT_FILE
    ELSE "Ok"

check_add(var) ==
    IF Contains(var, "=") /\ Len(var) >= 3 THEN "Ok" ELSE MSG_NEED_SRC_DST

----------------------------------------------------------------------------
(* Manifest builder *)

\* make_add_list: exits the process when the source does not exist
make_add_list(src_path, dst_path) ==
    IF ~exists(src_path) THEN Exited(NOINPUT, MSG_NOINPUT)
    ELSE Returned(<< AddList(src_path, dst_path) >>)

\* the two pieces parse_add keeps: splitted_arg_add[0] and splitted_arg_add[1]
split_add(arg_add) ==
    LET splitted_arg_add == Split(arg_add, "=")
    IN  AddList(splitted_arg_add[1], splitted_arg_add[2])

\* parse_add: indexing piece [1] panics when the text holds no '='
parse_add(arg_add) ==
    IF Len(Split(arg_add, "=")) < 2 THEN Panicked
    ELSE make_add_list(split_add(arg_add).src, split_add(arg_add).dst)

\* walk_list: every walked path is stripped of the prefix addlist.dst and
\* unwrapped (a panic when it is no prefix); the result of the strip is
\* dropped and the vector that is returned is never pushed to
walk_list(addlist) ==
    IF \E p \in WalkDir(addlist.src) : ~strip_prefix_ok(p, addlist.dst)
    THEN Panicked
    ELSE Returned(<< >>)

\* one pass of build_list's loop over the --add values: both tests look at
\* the whole value `entry`, not at its source part
add_entry(addlist_vec, entry) ==
    LET after_file ==
            IF is_file(entry)
            THEN LET r == parse_add(entry)
                 IN  IF r.kind = "ok" THEN Returned(addlist_vec \o r.list) ELSE r
            ELSE Returned(addlist_vec)
    IN  IF after_file.kind # "ok" THEN after_file
        ELSE IF is_dir(entry)
        THEN LET r == parse_add(entry)
             IN  IF r.kind # "ok" THEN r
                 ELSE LET w == walk_list(r.list[1])
                      IN  IF w.kind = "ok"
                          THEN Returned(after_file.list \o w.list)
                          ELSE w
        ELSE after_file

RECURSIVE add_loop(_, _)
add_loop(addlist_vec, values) ==
    IF values = << >> THEN Returned(addlist_vec)
    ELSE LET r == add_entry(addlist_vec, Head(values))
         IN  IF r.kind = "ok" THEN add_loop(r.list, Tail(values)) ELSE r

\* build_list pushing the eboot entry before the sfo entry
build_list_swapped(sfo_path, eboot_path, add_values) ==
    LET first == make_add_list(sfo_path, DEFAULT_SFO_VPK_PATH)
        second == make_add_list(eboot_path, DEFAULT_EBOOT_VPK_PATH)
    IN  IF first.kind # "ok" THEN first
        ELSE IF second.kind # "ok" THEN second
        ELSE add_loop(second.list \o first.list, add_values)

build_list(sfo_path, eboot_path, add_values) ==
    LET first == make_add_list(sfo_path, DEFAULT_SFO_VPK_PATH)
        second == make_add_list(eboot_path, DEFAULT_EBOOT_VPK_PATH)
    IN  IF first.kind # "ok" THEN first
        ELSE IF second.kind # "ok" THEN second
        ELSE add_loop(first.list \o second.list, add_values)

----------------------------------------------------------------------------
(* Archive packager *)

Faults == { "none", "open", "read", "start_file", "write_all" }

\* the step of one loop pass that fails: opening a missing source and
\* reading a directory always fail, any step may fail with an I/O error
failing_step(pair, fault) ==
    IF fault = "open" \/ ~exists(pair.src) THEN "open"
    ELSE IF fault = "read" \/ is_dir(pair.src) THEN "read"
    ELSE fault

\* a step whose error is swallowed instead of returned
try_ignore(step) == "continue"

\* the `?` after each step: an error returns from pack_vpk
try(step) == IF step = "none" THEN "continue" ELSE "return"

\* file.read_to_end(&mut file_buff) appends to the buffer
read_to_end(buff, pair) == buff \o FileBytes(pair.src)

\* the buffer left as it is after the write
clear_skipped(buff) == buff

\* file_buff.clear()
clear(buff) == << >>

NewVpk == [ created |-> FALSE, records |-> << >>, finished |-> FALSE ]

----------------------------------------------------------------------------
(* Inputs: command lines and filesystems *)

FsPaths == { P_s, P_e, P_a, P_d, P_da, T_ab, T_dx, T_dd }

\* what may be found at each path; d/a is a regular file whenever d is a
\* directory
KindOptions ==
    (P_s :> { "file", "absent", "dir" }) @@
    (P_e :> { "file", "absent" }) @@
    (P_a :> { "file", "absent", "other" }) @@
    (P_d :> { "dir", "absent" }) @@
    (P_da :> { "file", "absent" }) @@
    (T_ab :> { "absent", "file" }) @@
    (T_dx :> { "absent", "file", "dir" }) @@
    (T_dd :> { "absent", "dir" })

FsStates ==
    { f \in [ FsPaths -> Kinds ] :
        /\ \A p \in FsPaths : f[p] \in KindOptions[p]
        /\ (f[P_da] = "file") <=> (f[P_d] = "dir") }

MandatoryArgs == { P_s, P_e }

AddArgs == { T_ab, T_dx, T_dd }

SeqsUpTo(S, n) == UNION { [ 1..k -> S ] : k \in 0..n }

ArgChars == { "a", "b", "=" }

----------------------------------------------------------------------------
(* The run of the program *)

Init ==
    /\ sfo \in MandatoryArgs
    /\ eboot \in MandatoryArgs
    /\ adds \in SeqsUpTo(AddArgs, MaxAdds)
    /\ fs \in FsStates
    /\ vpk_writable \in BOOLEAN
    /\ pc = "get_matches"
    /\ manifest = << >>
    /\ vpk = NewVpk
    /\ file_buff = << >>
    /\ idx = 0
    /\ opened = << >>
    /\ fail_at = 0
    /\ pack_result = "none"
    /\ err = "none"
    /\ exit_code = -1

\* the messages of the validators that reject a value of the command line
Rejections ==
    { m \in { check_file(sfo), check_file(eboot) } \cup
            { check_add(adds[i]) : i \in 1..Len(adds) } : m # "Ok" }

\* main, get_matches(): clap runs the validators and exits on the first
\* rejection it meets (which one is first depends on the command line)
GetMatches ==
    /\ pc = "get_matches"
    /\ IF Rejections = { }
       THEN /\ pc' = "build_list"
            /\ UNCHANGED << err, exit_code >>
       ELSE /\ \E m \in Rejections : err' = m
            /\ exit_code' = CLAP_ERROR
            /\ pc' = "exited"
    /\ UNCHANGED << sfo, eboot, adds, fs, vpk_writable, manifest, vpk,
                    file_buff, idx, opened, fail_at, pack_result >>

\* main, addlist_vec = build_list(&arg_matches)
BuildList ==
    /\ pc = "build_list"
    /\ LET r == build_list(sfo, eboot, adds)
       IN  IF r.kind = "ok"
           THEN /\ manifest' = r.list
                /\ pc' = "pack_vpk"
                /\ UNCHANGED << err, exit_code >>
           ELSE /\ err' = r.err
                /\ exit_code' = r.code
                /\ pc' = "exited"
                /\ UNCHANGED manifest
    /\ UNCHANGED << sfo, eboot, adds, fs, vpk_writable, vpk, file_buff, idx,
                    opened, fail_at, pack_result >>

\* pack_vpk up to its loop: make_file (create or truncate, exit on failure)
\* and ZipWriter::new
MakeFile ==
    /\ pc = "pack_vpk"
    /\ IF vpk_writable
       THEN /\ vpk' = [ created |-> TRUE, records |-> << >>, finished |-> FALSE ]
            /\ idx' = 1
            /\ pc' = "pack_loop"
            /\ UNCHANGED << err, exit_code >>
       ELSE /\ err' = MSG_CANTCREAT
            /\ exit_code' = CANTCREAT
            /\ pc' = "exited"
            /\ UNCHANGED << vpk, idx >>
    /\ UNCHANGED << sfo, eboot, adds, fs, vpk_writable, manifest, file_buff,
                    opened, fail_at, pack_result >>

\* one pass of pack_vpk's loop: open, read_to_end, start_file, write_all,
\* clear
PackEntry ==
    /\ pc = "pack_loop"
    /\ idx <= Len(manifest)
    /\ \E fault \in Faults :
         LET pair == manifest[idx]
             step == failing_step(pair, fault)
             buff == read_to_end(file_buff, pair)
         IN  /\ opened' = Append(opened, idx)
             /\ fail_at' = IF step = "none" THEN fail_at ELSE idx
             /\ CASE step = "none" ->
                       /\ vpk' = [ vpk EXCEPT !.records =
                                     Append(@, [ name |-> pair.dst, data |-> buff ]) ]
                       /\ file_buff' = clear(buff)
                  [] step = "write_all" ->
                       \* the record was started, only part of it is written
                       /\ \E n \in 0..(Len(buff) - 1) :
                            vpk' = [ vpk EXCEPT !.records =
                                       Append(@, [ name |-> pair.dst,
                                                   data |-> SubSeq(buff, 1, n) ]) ]
                       /\ file_buff' = buff
                  [] step = "start_file" ->
                       /\ file_buff' = buff
                       /\ UNCHANGED vpk
                  [] OTHER ->
                       UNCHANGED << vpk, file_buff >>
             /\ IF try(step) = "continue"
                THEN /\ idx' = idx + 1
                     /\ UNCHANGED << pc, pack_result >>
                ELSE /\ pack_result' = "Err"
                     /\ pc' = "main_match"
                     /\ UNCHANGED idx
    /\ UNCHANGED << sfo, eboot, adds, fs, vpk_writable, manifest, err, exit_code >>

\* vpk_writer.finish()?; Ok(())
Finish ==
    /\ pc = "pack_loop"
    /\ idx > Len(manifest)
    /\ \E ok \in BOOLEAN :
         IF ok
         THEN /\ vpk' = [ vpk EXCEPT !.finished = TRUE ]
              /\ pack_result' = "Ok"
         ELSE /\ pack_result' = "Err"
              /\ UNCHANGED vpk
    /\ pc' = "main_match"
    /\ UNCHANGED << sfo, eboot, adds, fs, vpk_writable, manifest, file_buff,
                    idx, opened, fail_at, err, exit_code >>

\* main, match pack_vpk(..): both arms print, then main returns
MainMatch ==
    /\ pc = "main_match"
    /\ err' = IF pack_result = "Ok" THEN "none" ELSE MSG_PACK
    /\ exit_code' = 0
    /\ pc' = "exited"
    /\ UNCHANGED << sfo, eboot, adds, fs, vpk_writable, manifest, vpk,
                    file_buff, idx, opened, fail_at, pack_result >>

Next == GetMatches \/ BuildList \/ MakeFile \/ PackEntry \/ Finish \/ MainMatch

Spec == Init /\ [][Next]_vars

----------------------------------------------------------------------------
(* The declaration syntax alone: check_add, then parse_add, on every text  *)
(* of at most MaxArgLen characters                                         *)

ArgSources == SeqsUpTo({ "a", "b" }, MaxArgLen) \ { << >> }

InitArgs ==
    /\ sfo = P_s
    /\ eboot = P_e
    /\ adds \in { << t >> : t \in SeqsUpTo(ArgChars, MaxArgLen) }
    /\ fs = [ p \in ArgSources |-> "file" ]
    /\ vpk_writable = TRUE
    /\ pc = "check_add"
    /\ manifest = << >>
    /\ vpk = NewVpk
    /\ file_buff = << >>
    /\ idx = 0
    /\ opened = << >>
    /\ fail_at = 0
    /\ pack_result = "none"
    /\ err = "none"
    /\ exit_code = -1

\* clap's call of the validator of --add
CheckAdd ==
    /\ pc = "check_add"
    /\ IF check_add(adds[1]) = "Ok"
       THEN /\ pc' = "parse_add"
            /\ UNCHANGED << err, exit_code >>
       ELSE /\ err' = check_add(adds[1])
            /\ exit_code' = CLAP_ERROR
            /\ pc' = "exited"
    /\ UNCHANGED << sfo, eboot, adds, fs, vpk_writable, manifest, vpk,
                    file_buff, idx, opened, fail_at, pack_result >>

\* parse_add on an accepted value
ParseAdd ==
    /\ pc = "parse_add"
    /\ LET r == parse_add(adds[1])
       IN  IF r.kind = "ok"
           THEN /\ manifest' = r.list
                /\ pc' = "parsed"
                /\ UNCHANGED << err, exit_code >>
           ELSE /\ err' = r.err
                /\ exit_code' = r.code
                /\ pc' = "exited"
                /\ UNCHANGED manifest
    /\ UNCHANGED << sfo, eboot, adds, fs, vpk_writable, vpk, file_buff, idx,
                    opened, fail_at, pack_result >>

NextArgs == CheckAdd \/ ParseAdd

SpecArgs == InitArgs /\ [][NextArgs]_vars

----------------------------------------------------------------------------
(* Vocabulary of the properties *)

\* build_list has returned its vector to main
BuildReturned ==
    \/ pc \in { "pack_vpk", "pack_loop", "main_match" }
    \/ pc = "exited" /\ err \in { "none", MSG_PACK, MSG_CANTCREAT }

\* a declaration src=dst as it is meant: cut at the first '='
DeclSrc(t) == SubSeq(t, 1, FirstIndex(t, "=") - 1)
DeclDst(t) == SubSeq(t, FirstIndex(t, "=") + 1, Len(t))

\* the entries after the two mandatory ones
UserEntries == SubSeq(manifest, 3, Len(manifest))

RECURSIVE JoinComponents(_)
JoinComponents(cs) ==
    IF cs = << >> THEN << >>
    ELSE IF Len(cs) = 1 THEN cs[1]
    ELSE cs[1] \o << "/" >> \o JoinComponents(Tail(cs))

\* p relative to root, with '/' between the components
RelativeTo(p, root) ==
    JoinComponents(SubSeq(Components(p), Len(Components(root)) + 1,
                          Len(Components(p))))

RegularFilesBeneath(root) ==
    { p \in WalkDir(root) : p # root /\ is_file(p) }

\* the entries a directory declaration is meant to contribute
TreeEntries(t) ==
    { AddList(p, DeclDst(t) \o << "/" >> \o RelativeTo(p, DeclSrc(t))) :
        p \in RegularFilesBeneath(DeclSrc(t)) }

DistinctDestinations ==
    \A i, j \in 1..Len(manifest) :
        i # j => manifest[i].dst # manifest[j].dst

MissingMandatory == ~exists(sfo) \/ ~exists(eboot)

\* every argument other than a missing sfo or eboot passes its validator
OnlyMissing ==
    /\ \A p \in { sfo, eboot } : exists(p) => is_file(p)
    /\ \A i \in 1..Len(adds) : Contains(adds[i], "=") /\ Len(adds[i]) >= 3

----------------------------------------------------------------------------
(* Properties *)

\* C1: whenever build_list returns, the first entry of the manifest is
\* (sfo -> sce_sys/param.sfo) and the second is (eboot -> eboot.bin); with no
\* --add declaration the manifest is exactly these two entries.
C1_MandatoryFirst ==
    BuildReturned =>
        /\ Len(manifest) >= 2
        /\ manifest[1] = AddList(sfo, DEFAULT_SFO_VPK_PATH)
        /\ manifest[2] = AddList(eboot, DEFAULT_EBOOT_VPK_PATH)
        /\ (adds = << >> => Len(manifest) = 2)

C1_Witness ==
    /\ pc = "pack_vpk"
    /\ sfo # eboot
    /\ Len(adds) > 0
    /\ Len(manifest) = 3

\* C2 (as claimed): a declaration whose source is a directory contributes
\* exactly one entry per regular file beneath it, the destination being dst
\* joined with the file's path relative to the source.
C2_Claim_TreeExpanded ==
    BuildReturned =>
        /\ \A i \in 1..Len(adds) :
             is_dir(DeclSrc(adds[i])) =>
                 \A e \in TreeEntries(adds[i]) :
                     \E k \in 1..Len(UserEntries) : UserEntries[k] = e
        /\ (\A i \in 1..Len(adds) : is_dir(DeclSrc(adds[i]))) =>
             \A k \in 1..Len(UserEntries) :
                 \E i \in 1..Len(adds) : UserEntries[k] \in TreeEntries(adds[i])

\* C3 (as claimed): when every declared source is a regular file, the entries
\* after the mandatory two are (src_i -> dst_i), one per declaration, in the
\* order of the declarations.
C3_Claim_FilesInOrder ==
    (BuildReturned /\ \A i \in 1..Len(adds) : is_file(DeclSrc(adds[i]))) =>
        UserEntries =
            [ i \in 1..Len(adds) |-> AddList(DeclSrc(adds[i]), DeclDst(adds[i])) ]

\* C4 (as claimed): when some declared source is neither a regular file nor a
\* directory, no manifest is returned, packing never starts and the run ends
\* in an error.
C4_Claim_InvalidSourceFails ==
    (\E i \in 1..Len(adds) :
        ~is_file(DeclSrc(adds[i])) /\ ~is_dir(DeclSrc(adds[i]))) =>
        /\ ~BuildReturned
        /\ manifest = << >>
        /\ ~vpk.created
        /\ (pc = "exited" => exit_code # 0)

\* C5: when pack_vpk returns Ok on a manifest with pairwise distinct
\* destinations, the container holds one record per entry, in manifest order,
\* each named by the entry's destination and holding exactly the bytes of the
\* entry's source.
C5_RecordsMatchManifest ==
    (pack_result = "Ok" /\ DistinctDestinations) =>
        /\ Len(vpk.records) = Len(manifest)
        /\ \A i \in 1..Len(manifest) :
             vpk.records[i] = [ name |-> manifest[i].dst,
                                data |-> FileBytes(manifest[i].src) ]

C5_Witness ==
    /\ pack_result = "Ok"
    /\ DistinctDestinations
    /\ Len(manifest) >= 3
    /\ sfo # eboot

\* C6 (as claimed): when sfo or eboot does not exist, the run fails with a
\* not-found error and the output file is never created or truncated.
C6_Claim_NotFound ==
    MissingMandatory =>
        /\ ~vpk.created
        /\ (pc = "exited" =>
              exit_code # 0 /\ err \in { MSG_NOT_EXIST, MSG_NOINPUT })

\* C6 (amended): when sfo or eboot does not exist, the run ends in clap's
\* validation with a nonzero status, before build_list and make_file, and the
\* output file is never created or truncated; the error is the not-found
\* error whenever every other argument passes its validator, and otherwise
\* the error of one of the rejected arguments.
C6_FailsBeforeCreate ==
    MissingMandatory =>
        /\ ~vpk.created
        /\ pc \in { "get_matches", "exited" }
        /\ (pc = "exited" =>
              /\ exit_code = CLAP_ERROR
              /\ err \in { MSG_NOT_EXIST, MSG_NOT_FILE }
              /\ (OnlyMissing => err = MSG_NOT_EXIST))

C6_Witness ==
    /\ pc = "exited"
    /\ ~exists(eboot)
    /\ is_file(sfo)
    /\ err = MSG_NOT_EXIST
    /\ ~vpk.created

\* C7 (as claimed): a run exits with status 0 only when it succeeded, and a
\* missing input, an output that cannot be created and a read/write failure
\* during packing each end the process with a nonzero status of their own.
C7_Claim_ExitStatus ==
    pc = "exited" =>
        /\ (exit_code = 0) <=> (pack_result = "Ok")
        /\ (err \in { MSG_NOT_EXIST, MSG_NOINPUT }) =>
              exit_code \notin { 0, CANTCREAT }
        /\ (err = MSG_CANTCREAT) => exit_code \notin { 0, NOINPUT, CLAP_ERROR }
        /\ (err = MSG_PACK) =>
              exit_code \notin { 0, NOINPUT, CLAP_ERROR, CANTCREAT }

C9_Claim_SourcesRegular ==
    BuildReturned =>
        \A k \in 1..Len(manifest) : is_file(manifest[k].src)

\* C10 (as claimed): a declaration accepted by check_add splits into a
\* non-empty source and a non-empty destination, the destination being the
\* whole text after the first '='.
C10_Claim_SplitNonEmpty ==
    pc \in { "parse_add", "parsed" } =>
        /\ split_add(adds[1]).src # << >>
        /\ split_add(adds[1]).dst # << >>
        /\ split_add(adds[1]).dst = DeclDst(adds[1])

====
